---- MODULE Spec2Model ----
(***************************************************************************)
(* Model of jira-epic-manager: the settings load (src/src/config.py), the  *)
(* construction of JiraEpic and its issue-creation workflow                *)
(* (src/src/epic_manager.py), driven as in main.py.                        *)
(*                                                                         *)
(* Text that the code parses (project key, epic key, issue keys) is a      *)
(* sequence of one-character strings.  An optional Python value            *)
(* (str | None) is a sequence of length 0 (None) or 1 (the value).         *)
(* The three statements of JiraEpic.__init__ are one action each; after    *)
(* construction one action = one request to the tracker together with all  *)
(* the code that runs up to the next request (the program is sequential    *)
(* and blocks on each request).                                            *)
(***************************************************************************)
EXTENDS Integers, Sequences, FiniteSets, TLC

\* ---------------------------------------------------------------- bounds
MaxStories == 2
MaxCalls == 2
MaxKeyLen == 3

\* ------------------------------------------------------- optional values
Absent == <<>>
Some(v) == <<v>>
Get(o) == o[1]

\* ------------------------------------------------------------ exceptions
\* The direct base class of every exception type the workflow meets.
BaseClass ==
  [ HTTPError |-> "Exception",
    JiraError |-> "Exception",
    StoryCreationError |-> "JiraError",
    JiraEpicNotFoundError |-> "JiraError",
    JiraEpicProjectMismatchError |-> "JiraError",
    Exception |-> "BaseException" ]

RECURSIVE IsInstance(_, _)
IsInstance(type, cls) ==
  IF type = cls THEN TRUE
  ELSE IF type \in DOMAIN BaseClass THEN IsInstance(BaseClass[type], cls)
  ELSE FALSE

JiraEpicNotFoundError(epic_key) ==
  [type |-> "JiraEpicNotFoundError", subject |-> epic_key, original_error |-> Absent]

JiraEpicProjectMismatchError(epic_key, project_key) ==
  [type |-> "JiraEpicProjectMismatchError", subject |-> epic_key, original_error |-> Absent]

StoryCreationError(story_summary, original_error) ==
  [type |-> "StoryCreationError", subject |-> story_summary, original_error |-> original_error]

\* --------------------------------------------------------------- settings
Alphabet == {"A", "B", "-"}

Texts(n) == UNION {[1..k -> Alphabet] : k \in 0..n}

\* str.split("-")[0]: the text before the first "-", the whole text if none.
RECURSIVE SplitFirst(_)
SplitFirst(text) ==
  IF text = <<>> THEN <<>>
  ELSE IF Head(text) = "-" THEN <<>>
  ELSE <<Head(text)>> \o SplitFirst(Tail(text))

\* The validator, had it compared the start of the epic key with the
\* project key.
validate_project_and_epic_key_StartsWith(cfg) ==
  /\ Len(cfg.jira_epic_key) >= Len(cfg.jira_project)
  /\ SubSeq(cfg.jira_epic_key, 1, Len(cfg.jira_project)) = cfg.jira_project

\* Config.validate_project_and_epic_key: TRUE when the validator passes.
validate_project_and_epic_key(cfg) ==
  SplitFirst(cfg.jira_epic_key) = cfg.jira_project

\* The values the environment can hold for the settings the workflow reads.
Environment(project, epic_key) ==
  [jira_project |-> project, jira_epic_key |-> epic_key, jira_id |-> "acct-default"]

\* ------------------------------------------------------------ input data
\* Task and Story values (src/src/schema.py), already validated.
Task(summary, description, assignee_id) ==
  [summary |-> summary, description |-> description, assignee_id |-> assignee_id]

Story(summary, description, tasks, assignee_id) ==
  [summary |-> summary, description |-> description, tasks |-> tasks,
   assignee_id |-> assignee_id]

TaskT1 == Task("T1", "d2", Absent)
TaskT2 == Task("T2", "d3", Some(""))

\* Story.tasks is list[Task] | None.
TaskLists == {Absent, Some(<<>>), Some(<<TaskT1>>), Some(<<TaskT1, TaskT2>>)}

\* Stories "S1" with every task list (two of them in one batch share their
\* summary) and one story "S2" that names its assignee.
StoryPool ==
  {Story("S1", "d", tasks, Absent) : tasks \in TaskLists}
    \cup {Story("S2", "e", Some(<<TaskT2>>), Some("acct-1"))}

Batches == UNION {[1..n -> StoryPool] : n \in 0..MaxStories}

\* The end-to-end example of the documentation: one story with one task.
ExampleBatch == <<Story("S1", "d", Some(<<TaskT1>>), Absent)>>

\* Environments of the workflow runs: one consistent, one inconsistent.
EnvPool ==
  { Environment(<<"A", "B">>, <<"A", "B", "-", "1">>),
    Environment(<<"A", "B">>, <<"B", "A", "-", "1">>) }

AllEnvironments ==
  {Environment(project, epic_key) : project \in Texts(MaxKeyLen), epic_key \in Texts(MaxKeyLen)}

\* ----------------------------------------------------------------- state
VARIABLES
  env,            \* the settings values of the process environment
  stories,        \* the batch loaded by the caller (main.py:9)
  settings_cache, \* lru_cache of get_settings
  config,         \* JiraEpic.config
  jira,           \* JiraEpic.jira, the tracker client
  pc,             \* position of the program
  raised,         \* the exception that left the program, if any
  calls,          \* create_stories calls completed
  story_idx,      \* create_stories: index of the story in progress
  task_idx,       \* create_sub_tasks_in_story: index of the task in progress
  parent_key,     \* create_story_with_sub_tasks: key of the created story
  failed_tasks,   \* create_sub_tasks_in_story: summaries of the failed tasks
  results,        \* create_stories: the mapping under construction
  issue_keys,     \* create_stories: the value create_story_with_sub_tasks returned
                  \* for each story of the current or last call, in turn
  returned,       \* value returned by the last completed create_stories
  logged,         \* success-count summary logged by the last completed call
  reads,          \* issue-read requests sent to the tracker
  creates,        \* issue-create requests of the current or last call, with responses
  previous,       \* summary of the completed call before the current or last one
  next_issue      \* tracker: number of the next issue it creates

vars ==
  <<env, stories, settings_cache, config, jira, pc, raised, calls, story_idx,
    task_idx, parent_key, failed_tasks, results, issue_keys, returned, logged,
    reads, creates, previous, next_issue>>

\* ---------------------------------------------------------------- tracker
\* Outcomes of one request: accepted, an HTTP-level error (not found, auth),
\* or any other exception (network failure, malformed response).
Outcomes == {"ok", "HTTPError", "Exception"}

DigitChar(d) ==
  <<"0", "1", "2", "3", "4", "5", "6", "7", "8", "9">>[d + 1]

RECURSIVE Decimal(_)
Decimal(n) ==
  IF n < 10 THEN <<DigitChar(n)>>
  ELSE Decimal(n \div 10) \o <<DigitChar(n % 10)>>

\* The key the tracker gives the n-th issue of a project.
IssueKey(project, n) == project \o <<"-">> \o Decimal(n)

\* Response of Jira.create_issue(fields=fields).
create_issue(fields, outcome) ==
  IF outcome = "ok"
  THEN [status |-> "ok", key |-> Some(IssueKey(fields.project, next_issue))]
  ELSE [status |-> outcome, key |-> Absent]

\* ------------------------------------------------------------ orchestrator
_get_assignee_id(assignee_id) ==
  IF assignee_id = Absent \/ assignee_id = Some("")
  THEN Get(config).jira_id
  ELSE Get(assignee_id)

\* The fields, had every issue been parented to the epic.
_build_issue_fields_EpicParent(summary, description, issue_type, parent, assignee_id) ==
  [ project |-> Get(config).jira_project,
    summary |-> summary,
    description |-> description,
    issuetype |-> issue_type,
    parent |-> Get(config).jira_epic_key,
    assignee |-> _get_assignee_id(assignee_id) ]

_build_issue_fields(summary, description, issue_type, parent, assignee_id) ==
  [ project |-> Get(config).jira_project,
    summary |-> summary,
    description |-> description,
    issuetype |-> issue_type,
    parent |-> parent,
    assignee |-> _get_assignee_id(assignee_id) ]

\* A call either returns a value or raises an exception.
Return(value) == [exc |-> Absent, value |-> value]
Raise(exception) == [exc |-> Some(exception), value |-> Absent]

\* _verify_epic_exists, had it translated HTTP errors only.
_verify_epic_exists_HttpOnly(epic_key, outcome) ==
  IF outcome = "ok" THEN Return(Absent)
  ELSE IF IsInstance(outcome, "HTTPError")
    THEN Raise(JiraEpicNotFoundError(epic_key))
  ELSE Raise([type |-> outcome, subject |-> epic_key, original_error |-> Absent])

\* _verify_epic_exists, after the tracker answered the read of the epic.
_verify_epic_exists(epic_key, outcome) ==
  IF outcome = "ok" THEN Return(Absent)
  ELSE IF IsInstance(outcome, "Exception")
    THEN Raise(JiraEpicNotFoundError(epic_key))
  ELSE Raise([type |-> outcome, subject |-> epic_key, original_error |-> Absent])

\* create_story_within_epic, after the tracker answered.
create_story_within_epic(story, response) ==
  IF response.status = "ok" THEN Return(response.key)
  ELSE IF IsInstance(response.status, "HTTPError")
    THEN Raise(StoryCreationError(story.summary, Some(response.status)))
  ELSE IF IsInstance(response.status, "Exception")
    THEN Raise(StoryCreationError(story.summary, Absent))
  ELSE Raise([type |-> response.status, subject |-> story.summary, original_error |-> Absent])

\* The except clauses of create_story_with_sub_tasks, had they caught only
\* the story errors that carry an HTTP error.
StoryErrorCaught_HttpOnly(exception) ==
  IsInstance(exception.type, "StoryCreationError") /\ exception.original_error # Absent

\* The except clauses of create_story_with_sub_tasks.
StoryErrorCaught(exception) ==
  IsInstance(exception.type, "StoryCreationError") \/ IsInstance(exception.type, "Exception")

\* The except clauses around one sub-task request.
SubTaskErrorCaught(status) ==
  IsInstance(status, "HTTPError") \/ IsInstance(status, "Exception")

\* `if not story.tasks`
NoTasks(story) == story.tasks = Absent \/ Get(story.tasks) = <<>>

\* The assignment, had it kept the first result recorded for a summary.
SetResult_KeepFirst(mapping, summary, issue_key) ==
  [s \in DOMAIN mapping \cup {summary} |->
     IF s \in DOMAIN mapping THEN mapping[s] ELSE issue_key]

\* results[story.summary] = issue_key
SetResult(mapping, summary, issue_key) ==
  [s \in DOMAIN mapping \cup {summary} |-> IF s = summary THEN issue_key ELSE mapping[s]]

\* sum(1 for key in results.values() if key is not None)
SuccessCount(mapping) == Cardinality({s \in DOMAIN mapping : mapping[s] # Absent})

\* What is kept of a completed call: its create requests (all fields but the
\* parent, with the story and task each was made for) and whether the tracker
\* accepted all of them.
CallSummary(log) ==
  [ requests |-> [i \in 1..Len(log) |->
                    [ issuetype |-> log[i].fields.issuetype,
                      project |-> log[i].fields.project,
                      summary |-> log[i].fields.summary,
                      description |-> log[i].fields.description,
                      assignee |-> log[i].fields.assignee,
                      story |-> log[i].story,
                      task |-> log[i].task ]],
    accepted |-> \A i \in 1..Len(log) : log[i].response.status = "ok" ]

EmptyMapping == [s \in {} |-> Absent]

\* The variables of the workflow as one record, to describe where a step leads.
Here ==
  [ pc |-> pc, raised |-> raised, calls |-> calls, story_idx |-> story_idx,
    task_idx |-> task_idx, parent_key |-> parent_key, failed_tasks |-> failed_tasks,
    results |-> results, issue_keys |-> issue_keys, returned |-> returned,
    logged |-> logged ]

Goto(k) ==
  /\ pc' = k.pc
  /\ raised' = k.raised
  /\ calls' = k.calls
  /\ story_idx' = k.story_idx
  /\ task_idx' = k.task_idx
  /\ parent_key' = k.parent_key
  /\ failed_tasks' = k.failed_tasks
  /\ results' = k.results
  /\ issue_keys' = k.issue_keys
  /\ returned' = k.returned
  /\ logged' = k.logged

\* An exception nothing catches leaves create_stories and ends the program.
Propagate(exception) ==
  [Here EXCEPT !.pc = "failed", !.raised = Some(exception)]

\* create_stories after its loop: the success count, the log line, the return.
FinishBatch(mapping, keys) ==
  [Here EXCEPT !.pc = "operational",
               !.calls = @ + 1,
               !.story_idx = 0,
               !.task_idx = 0,
               !.parent_key = Absent,
               !.failed_tasks = <<>>,
               !.results = mapping,
               !.issue_keys = keys,
               !.returned = Some(mapping),
               !.logged = Some([success_count |-> SuccessCount(mapping),
                                total |-> Len(stories)])]

\* The turn of the loop, had the loop stopped at the first story that failed.
StoryDone_StopAtFailure(issue_key) ==
  LET mapping == SetResult(results, stories[story_idx].summary, issue_key)
  IN  IF story_idx < Len(stories) /\ issue_key # Absent
      THEN [Here EXCEPT !.pc = "create_story",
                        !.story_idx = @ + 1,
                        !.task_idx = 0,
                        !.parent_key = Absent,
                        !.failed_tasks = <<>>,
                        !.results = mapping,
                        !.issue_keys = Append(@, issue_key)]
      ELSE FinishBatch(mapping, Append(issue_keys, issue_key))

\* create_stories, one turn of the loop after create_story_with_sub_tasks
\* returned issue_key: record it, then go to the next story or finish.
StoryDone(issue_key) ==
  LET mapping == SetResult(results, stories[story_idx].summary, issue_key)
  IN  IF story_idx < Len(stories)
      THEN [Here EXCEPT !.pc = "create_story",
                        !.story_idx = @ + 1,
                        !.task_idx = 0,
                        !.parent_key = Absent,
                        !.failed_tasks = <<>>,
                        !.results = mapping,
                        !.issue_keys = Append(@, issue_key)]
      ELSE FinishBatch(mapping, Append(issue_keys, issue_key))

\* create_story_with_sub_tasks, had it returned None for a story without tasks.
create_story_with_sub_tasks_NoneWithoutTasks(story, outcome) ==
  IF outcome.exc # Absent
  THEN IF StoryErrorCaught(Get(outcome.exc))
       THEN StoryDone(Absent)
       ELSE Propagate(Get(outcome.exc))
  ELSE IF NoTasks(story)
  THEN StoryDone(Absent)
  ELSE [Here EXCEPT !.pc = "create_sub_task",
                    !.task_idx = 1,
                    !.parent_key = outcome.value,
                    !.failed_tasks = <<>>]

\* create_story_with_sub_tasks, had it skipped the sub-tasks of a batch that
\* an earlier call already processed.
create_story_with_sub_tasks_SkipRepeated(story, outcome) ==
  IF outcome.exc # Absent
  THEN IF StoryErrorCaught(Get(outcome.exc))
       THEN StoryDone(Absent)
       ELSE Propagate(Get(outcome.exc))
  ELSE IF NoTasks(story) \/ calls > 0
  THEN StoryDone(outcome.value)
  ELSE [Here EXCEPT !.pc = "create_sub_task",
                    !.task_idx = 1,
                    !.parent_key = outcome.value,
                    !.failed_tasks = <<>>]

\* create_story_with_sub_tasks from the outcome of create_story_within_epic
\* up to the first sub-task request.
create_story_with_sub_tasks(story, outcome) ==
  IF outcome.exc # Absent
  THEN IF StoryErrorCaught(Get(outcome.exc))
       THEN StoryDone(Absent)
       ELSE Propagate(Get(outcome.exc))
  ELSE IF NoTasks(story)
  THEN StoryDone(outcome.value)
  ELSE [Here EXCEPT !.pc = "create_sub_task",
                    !.task_idx = 1,
                    !.parent_key = outcome.value,
                    !.failed_tasks = <<>>]

\* create_sub_tasks_in_story, had the loop ended at the first failed task.
create_sub_tasks_in_story_ShortCircuit(tasks, task, response) ==
  IF response.status # "ok"
  THEN StoryDone(parent_key)
  ELSE IF task_idx < Len(tasks)
       THEN [Here EXCEPT !.task_idx = @ + 1]
       ELSE StoryDone(parent_key)

\* create_sub_tasks_in_story, one turn of the loop after the tracker answered,
\* and the return through create_story_with_sub_tasks after the last task.
create_sub_tasks_in_story(tasks, task, response) ==
  IF response.status # "ok" /\ ~SubTaskErrorCaught(response.status)
  THEN LET exception == [type |-> response.status, subject |-> task.summary,
                         original_error |-> Absent]
       IN  IF StoryErrorCaught(exception)
           THEN StoryDone(Absent)
           ELSE Propagate(exception)
  ELSE LET failed == IF response.status = "ok"
                     THEN failed_tasks
                     ELSE Append(failed_tasks, task.summary)
       IN  IF task_idx < Len(tasks)
           THEN [Here EXCEPT !.task_idx = @ + 1, !.failed_tasks = failed]
           ELSE StoryDone(parent_key)

\* ----------------------------------------------------------------- actions
InitWith(environments, batches) ==
  /\ env \in environments
  /\ stories \in batches
  /\ settings_cache = Absent
  /\ config = Absent
  /\ jira = Absent
  /\ pc = "get_settings"
  /\ raised = Absent
  /\ calls = 0
  /\ story_idx = 0
  /\ task_idx = 0
  /\ parent_key = Absent
  /\ failed_tasks = <<>>
  /\ results = EmptyMapping
  /\ issue_keys = <<>>
  /\ returned = Absent
  /\ logged = Absent
  /\ reads = <<>>
  /\ creates = <<>>
  /\ previous = Absent
  /\ next_issue = 2

Init == InitWith(EnvPool, Batches)

InitSettings == InitWith(AllEnvironments, {ExampleBatch})

\* JiraEpic.__init__, `self.config = get_settings()`: the cached settings, or
\* a load from the environment that the validator can reject.
GetSettings ==
  /\ pc = "get_settings"
  /\ IF settings_cache # Absent
     THEN /\ config' = settings_cache
          /\ pc' = "set_up_client"
          /\ UNCHANGED <<settings_cache, raised>>
     ELSE IF validate_project_and_epic_key(env)
     THEN /\ settings_cache' = Some(env)
          /\ config' = Some(env)
          /\ pc' = "set_up_client"
          /\ UNCHANGED raised
     ELSE /\ raised' = Some(JiraEpicProjectMismatchError(env.jira_epic_key, env.jira_project))
          /\ pc' = "failed"
          /\ UNCHANGED <<settings_cache, config>>
  /\ UNCHANGED <<env, stories, jira, calls, story_idx, task_idx, parent_key,
                 failed_tasks, results, issue_keys, returned, logged, reads,
                 creates, previous, next_issue>>

\* JiraEpic.__init__, `self.jira = self.set_up_client()`: no request yet.
SetUpClient ==
  /\ pc = "set_up_client"
  /\ jira' = Some("client")
  /\ pc' = "verify_epic"
  /\ UNCHANGED <<env, stories, settings_cache, config, raised, calls, story_idx,
                 task_idx, parent_key, failed_tasks, results, issue_keys, returned,
                 logged, reads, creates, previous, next_issue>>

\* JiraEpic.__init__, `self._verify_epic_exists()`: one read of the epic; a
\* failure ends the construction and the program.
VerifyEpicExists(outcome) ==
  /\ pc = "verify_epic"
  /\ LET epic_key == Get(config).jira_epic_key
         result == _verify_epic_exists(epic_key, outcome)
     IN  /\ reads' = Append(reads, [key |-> epic_key, status |-> outcome])
         /\ IF result.exc # Absent
            THEN /\ raised' = result.exc
                 /\ pc' = "failed"
            ELSE /\ pc' = "operational"
                 /\ UNCHANGED raised
  /\ UNCHANGED <<env, stories, settings_cache, config, jira, calls, story_idx,
                 task_idx, parent_key, failed_tasks, results, issue_keys, returned,
                 logged, creates, previous, next_issue>>

\* JiraEpic.create_stories is called with the batch: `results = {}` and the
\* first turn of the loop, or the whole call when the batch is empty.
CreateStories ==
  /\ pc = "operational"
  /\ calls < MaxCalls
  /\ creates' = <<>>
  /\ previous' = IF calls = 0 THEN Absent ELSE Some(CallSummary(creates))
  /\ IF stories = <<>>
     THEN Goto(FinishBatch(EmptyMapping, <<>>))
     ELSE Goto([Here EXCEPT !.pc = "create_story",
                            !.story_idx = 1,
                            !.results = EmptyMapping,
                            !.issue_keys = <<>>,
                            !.returned = Absent,
                            !.logged = Absent])
  /\ UNCHANGED <<env, stories, settings_cache, config, jira, reads, next_issue>>

\* The request of create_story_within_epic for the story in progress and all
\* that follows it up to the next request.
CreateStory(outcome) ==
  /\ pc = "create_story"
  /\ LET story == stories[story_idx]
         fields == _build_issue_fields(story.summary, story.description, "Story",
                                       Get(config).jira_epic_key, story.assignee_id)
         response == create_issue(fields, outcome)
         log == Append(creates, [fields |-> fields, response |-> response,
                                 story |-> story_idx, task |-> 0])
     IN  /\ creates' = log
         /\ next_issue' = IF response.status = "ok" THEN next_issue + 1 ELSE next_issue
         /\ Goto(create_story_with_sub_tasks(
                   story, create_story_within_epic(story, response)))
  /\ UNCHANGED <<env, stories, settings_cache, config, jira, reads, previous>>

\* The request of create_sub_tasks_in_story for the task in progress and all
\* that follows it up to the next request.
CreateSubTask(outcome) ==
  /\ pc = "create_sub_task"
  /\ LET tasks == Get(stories[story_idx].tasks)
         task == tasks[task_idx]
         fields == _build_issue_fields(task.summary, task.description, "Sub-task",
                                       Get(parent_key), task.assignee_id)
         response == create_issue(fields, outcome)
         log == Append(creates, [fields |-> fields, response |-> response,
                                 story |-> story_idx, task |-> task_idx])
     IN  /\ creates' = log
         /\ next_issue' = IF response.status = "ok" THEN next_issue + 1 ELSE next_issue
         /\ Goto(create_sub_tasks_in_story(tasks, task, response))
  /\ UNCHANGED <<env, stories, settings_cache, config, jira, reads, previous>>

Next ==
  \/ GetSettings
  \/ SetUpClient
  \/ \E outcome \in Outcomes : VerifyEpicExists(outcome)
  \/ CreateStories
  \/ \E outcome \in Outcomes : CreateStory(outcome)
  \/ \E outcome \in Outcomes : CreateSubTask(outcome)

Spec == Init /\ [][Next]_vars

SpecSettings == InitSettings /\ [][Next]_vars

\* ------------------------------------------------------ reading the trace
\* The number of tasks of a story: none when tasks is None.
TaskCount(story) == IF story.tasks = Absent THEN 0 ELSE Len(Get(story.tasks))

\* A create_stories call has returned and no later call has begun.
CallCompleted == pc = "operational" /\ returned # Absent

IsStoryRequest(entry) == entry.task = 0

\* The Story create requests of the call, in the order sent.
StoryRequests == SelectSeq(creates, IsStoryRequest)

\* The positions in the log of the requests made for the i-th story.
RequestsOf(i) == {j \in DOMAIN creates : creates[j].story = i}

\* The Story create request of the i-th story (its turn has begun).
StoryRequestOf(i) ==
  creates[CHOOSE j \in RequestsOf(i) : creates[j].task = 0]

\* The Sub-task create requests of the i-th story, in the order sent.
SubTaskRequestsOf(i) ==
  LET IsSubTaskOf(entry) == entry.story = i /\ entry.task > 0
  IN  SelectSeq(creates, IsSubTaskOf)

Accepted(log) == \A j \in DOMAIN log : log[j].response.status = "ok"

\* No exception has left create_stories.
BatchNeverRaised == pc = "failed" => creates = <<>> /\ calls = 0

\* ------------------------------------------------------------------ claims

\* C1: create_stories never raises and never exits early: whatever the
\* tracker answers, a completed call made exactly one Story create request
\* per input story, in input order, and the returned mapping has an entry
\* for the summary of every input story.
C1_EveryStoryAttempted ==
  /\ BatchNeverRaised
  /\ CallCompleted =>
       /\ Len(StoryRequests) = Len(stories)
       /\ \A k \in 1..Len(StoryRequests) :
            /\ StoryRequests[k].story = k
            /\ StoryRequests[k].fields.summary = stories[k].summary
       /\ Len(issue_keys) = Len(stories)
       /\ \A i \in 1..Len(stories) : stories[i].summary \in DOMAIN Get(returned)

\* A completed call on two stories whose first story failed for a reason
\* other than HTTP and in which a sub-task failed with an HTTP error.
C1_Witness ==
  /\ CallCompleted
  /\ Len(stories) = 2
  /\ creates[1].response.status = "Exception"
  /\ \E j \in DOMAIN creates :
       creates[j].task > 0 /\ creates[j].response.status = "HTTPError"

\* C2 (as amended): when the Story create of a story fails (HTTP or other),
\* create_story_with_sub_tasks returns the absent value without raising, no
\* sub-task request is made for that story, and the batch result for its
\* summary is absent unless a later story with the same summary was created.
C2_FailedStoryAbsorbed ==
  /\ BatchNeverRaised
  /\ \A j \in DOMAIN creates :
       LET entry == creates[j]
       IN  (entry.task = 0 /\ entry.response.status # "ok") =>
             /\ RequestsOf(entry.story) = {j}
             /\ Len(issue_keys) >= entry.story
             /\ issue_keys[entry.story] = Absent
             /\ (\A k \in (entry.story + 1)..Len(issue_keys) :
                   stories[k].summary = entry.fields.summary => issue_keys[k] = Absent)
                => results[entry.fields.summary] = Absent

\* C2 as stated: the batch result for the summary of every story whose Story
\* create failed is absent.
C2_Original ==
  CallCompleted =>
    \A j \in DOMAIN creates :
      (creates[j].task = 0 /\ creates[j].response.status # "ok") =>
        Get(returned)[creates[j].fields.summary] = Absent

\* A completed call in which a story that has two tasks failed with an HTTP
\* error and the result for its summary is absent.
C2_Witness ==
  /\ CallCompleted
  /\ \E i \in 1..Len(stories) :
       /\ stories[i].tasks = Some(<<TaskT1, TaskT2>>)
       /\ StoryRequestOf(i).response.status = "HTTPError"
       /\ Get(returned)[stories[i].summary] = Absent

\* C3: for a created story that has tasks, each task is attempted exactly
\* once, in the given order, whichever of the attempts fail; nothing is
\* raised, and create_story_with_sub_tasks returns the key of the story.
C3_AllTasksAttempted ==
  /\ BatchNeverRaised
  /\ \A i \in 1..Len(issue_keys) :
       LET story == stories[i]
           sent == SubTaskRequestsOf(i)
       IN  (StoryRequestOf(i).response.status = "ok" /\ TaskCount(story) > 0) =>
             /\ Len(sent) = TaskCount(story)
             /\ \A k \in 1..Len(sent) :
                  /\ sent[k].task = k
                  /\ sent[k].fields.summary = Get(story.tasks)[k].summary
                  /\ sent[k].fields.issuetype = "Sub-task"
             /\ issue_keys[i] # Absent
             /\ issue_keys[i] = StoryRequestOf(i).response.key

\* A story with two tasks was created and both of its sub-task requests
\* failed, one with an HTTP error and one otherwise.
C3_Witness ==
  \E i \in 1..Len(issue_keys) :
    /\ issue_keys[i] # Absent
    /\ Len(SubTaskRequestsOf(i)) = 2
    /\ SubTaskRequestsOf(i)[1].response.status = "HTTPError"
    /\ SubTaskRequestsOf(i)[2].response.status = "Exception"

\* C4: for a story without tasks (None or an empty list) whose Story create
\* succeeds, create_story_with_sub_tasks returns the created key and the only
\* create request made for the story is the one of type Story.
C4_NoTasksOneRequest ==
  \A i \in 1..Len(issue_keys) :
    (TaskCount(stories[i]) = 0 /\ StoryRequestOf(i).response.status = "ok") =>
      /\ issue_keys[i] = StoryRequestOf(i).response.key
      /\ issue_keys[i] # Absent
      /\ Cardinality(RequestsOf(i)) = 1
      /\ \A j \in RequestsOf(i) : creates[j].fields.issuetype = "Story"

\* Both stories of a batch were created, one with tasks None and one with an
\* empty task list.
C4_Witness ==
  /\ Len(issue_keys) = 2
  /\ stories[1].tasks = Absent
  /\ stories[2].tasks = Some(<<>>)
  /\ issue_keys[1] # Absent
  /\ issue_keys[2] # Absent

\* C5: the epic is read once, during construction; when that read fails for
\* any reason the construction raises JiraEpicNotFoundError, the read is not
\* repeated and no create request is ever issued; create requests are issued
\* only after a successful read of the configured epic.
C5_EpicVerifiedFirst ==
  /\ Len(reads) <= 1
  /\ (reads # <<>> /\ reads[1].status # "ok") =>
       /\ pc = "failed"
       /\ raised # Absent
       /\ Get(raised).type = "JiraEpicNotFoundError"
       /\ Get(raised).subject = env.jira_epic_key
       /\ creates = <<>>
       /\ calls = 0
  /\ (pc \in {"operational", "create_story", "create_sub_task"} \/ creates # <<>>) =>
       /\ Len(reads) = 1
       /\ reads[1].status = "ok"
       /\ reads[1].key = env.jira_epic_key

\* The epic read failed with a network failure and the construction ended.
C5_Witness ==
  /\ pc = "failed"
  /\ reads # <<>>
  /\ reads[1].status = "Exception"


RECURSIVE TotalTasks(_)
TotalTasks(batch) ==
  IF batch = <<>> THEN 0 ELSE TaskCount(Head(batch)) + TotalTasks(Tail(batch))

\* The last story of the batch that has the summary of the i-th story.
LastWithSummary(i) ==
  \A k \in (i + 1)..Len(stories) : stories[k].summary # stories[i].summary

\* What C6 says of the requests of one run against a tracker that accepts
\* every request.
C6_Requests ==
  /\ Len(reads) <= 1
  /\ creates # <<>> => Len(reads) = 1
  /\ (CallCompleted /\ Accepted(creates)) =>
       /\ Len(StoryRequests) = Len(stories)
       /\ \A i \in 1..Len(stories) : Len(SubTaskRequestsOf(i)) = TaskCount(stories[i])
       /\ Len(creates) = Len(stories) + TotalTasks(stories)
       /\ stories = ExampleBatch =>
            /\ Len(creates) = 2
            /\ creates[1].fields.issuetype = "Story"
            /\ creates[2].fields.issuetype = "Sub-task"
       /\ DOMAIN Get(returned) = {stories[i].summary : i \in 1..Len(stories)}

\* C6 (as amended): against a tracker that accepts every request, one epic
\* read precedes every create request and none follows construction; a call
\* issues one Story create per story and one Sub-task create per task; the
\* result maps each summary to the key returned for the last story of the
\* batch that has this summary.
C6_AcceptedRun ==
  /\ C6_Requests
  /\ (CallCompleted /\ Accepted(creates)) =>
       \A i \in 1..Len(stories) :
         LastWithSummary(i) =>
           Get(returned)[stories[i].summary] = StoryRequestOf(i).response.key

\* C6 as stated: the result maps the summary of every story of the batch to
\* the key the tracker returned for that story.
C6_Original ==
  /\ C6_Requests
  /\ (CallCompleted /\ Accepted(creates)) =>
       \A i \in 1..Len(stories) :
         Get(returned)[stories[i].summary] = StoryRequestOf(i).response.key

\* The documented end-to-end run: one story with one task, all accepted.
C6_Witness ==
  /\ CallCompleted
  /\ calls = 1
  /\ stories = ExampleBatch
  /\ Accepted(creates)
  /\ Get(returned)["S1"] = Some(<<"A", "B", "-", "2">>)

\* C7: a second create_stories call on the same orchestrator with the same
\* batch issues the create requests of the first call again: when the tracker
\* accepts everything, the second call sends the same Story and Sub-task
\* requests as the first, and after two calls the tracker has created twice
\* the issues of one call.
C7_SecondCallDuplicates ==
  (/\ CallCompleted
   /\ previous # Absent
   /\ Get(previous).accepted
   /\ Accepted(creates)) =>
     /\ CallSummary(creates).requests = Get(previous).requests
     /\ Len(creates) = Len(stories) + TotalTasks(stories)
     /\ calls = 2 => next_issue - 2 = 2 * Len(Get(previous).requests)

\* Two accepted calls on a batch of two stories, one of them with two tasks.
C7_Witness ==
  /\ CallCompleted
  /\ calls = 2
  /\ Get(previous).accepted
  /\ Accepted(creates)
  /\ Len(stories) = 2
  /\ Len(creates) >= 4

\* prefix is the text of `text` before its first "-" (all of it if none).
IsTextBeforeFirstDash(prefix, text) ==
  /\ \A k \in 1..Len(prefix) : prefix[k] # "-"
  /\ Len(text) >= Len(prefix)
  /\ \A k \in 1..Len(prefix) : text[k] = prefix[k]
  /\ Len(text) > Len(prefix) => text[Len(prefix) + 1] = "-"

\* C8: the settings load succeeds exactly when the text of the epic key
\* before its first "-" is the project key; a mismatch fails the load before
\* the client is built and before any request, so whatever builds a client
\* or sends a request holds settings whose epic key has the project key as
\* prefix.
C8_LoadChecksPrefix ==
  LET consistent == IsTextBeforeFirstDash(env.jira_project, env.jira_epic_key)
  IN  /\ pc # "get_settings" => (config # Absent <=> consistent)
      /\ (pc # "get_settings" /\ ~consistent) =>
           /\ pc = "failed"
           /\ Get(raised).type = "JiraEpicProjectMismatchError"
           /\ jira = Absent
           /\ reads = <<>>
           /\ creates = <<>>
      /\ (jira # Absent \/ reads # <<>> \/ creates # <<>> \/ calls > 0) =>
           /\ config # Absent
           /\ IsTextBeforeFirstDash(Get(config).jira_project, Get(config).jira_epic_key)

\* The load failed for project "A" and epic key "B-A"; no client was built.
C8_Witness ==
  /\ pc = "failed"
  /\ env.jira_project = <<"A">>
  /\ env.jira_epic_key = <<"B", "-", "A">>
  /\ jira = Absent
  /\ reads = <<>>

\* C9: every Story create has the configured epic key as parent; every
\* Sub-task create has as parent the key returned for the Story create of
\* its own story, which is neither the epic key nor the key of another story;
\* the Sub-task creates of a story follow its successful Story create with no
\* request of another story in between.
C9_Parents ==
  \A j \in DOMAIN creates :
    LET entry == creates[j]
    IN  /\ entry.task = 0 =>
             /\ entry.fields.issuetype = "Story"
             /\ entry.fields.parent = env.jira_epic_key
        /\ entry.task > 0 =>
             /\ entry.fields.issuetype = "Sub-task"
             /\ \E i \in 1..(j - 1) :
                  /\ creates[i].task = 0
                  /\ creates[i].story = entry.story
                  /\ creates[i].response.status = "ok"
                  /\ creates[i].response.key = Some(entry.fields.parent)
                  /\ \A m \in i..j : creates[m].story = entry.story
             /\ entry.fields.parent # env.jira_epic_key
             /\ \A m \in DOMAIN creates :
                  (creates[m].task = 0 /\ creates[m].story # entry.story) =>
                    creates[m].response.key # Some(entry.fields.parent)

\* Two created stories, each followed by a sub-task request of its own.
C9_Witness ==
  /\ CallCompleted
  /\ Len(stories) = 2
  /\ \A i \in 1..2 :
       /\ StoryRequestOf(i).response.status = "ok"
       /\ Len(SubTaskRequestsOf(i)) >= 1

\* C10: the summary logged at the end of create_stories counts the stories
\* of the batch whose creation returned a key, out of the number of stories
\* of the batch.
C10_SuccessCount ==
  CallCompleted =>
    /\ Get(logged).success_count =
         Cardinality({i \in 1..Len(stories) : issue_keys[i] # Absent})
    /\ Get(logged).total = Len(stories)

====
